---- MODULE Spec2Model ----
(***************************************************************************)
(* XPResponder: the two iterations of the responder class found in the     *)
(* repository,                                                             *)
(*   "lib"  = src/lib/index.js      (setHeader/getHeader/end)              *)
(*   "part" = src/unnamed/part_000  (header/send, options.code)            *)
(* A builder is constructed once from an options object, derives its       *)
(* fields, applies headers to the attached response sink and binds the     *)
(* sink's end; afterwards it is finalized with end()/send().               *)
(*                                                                         *)
(* JavaScript values are records [t, s, n]: t is the type tag, s the       *)
(* string payload, n the numeric payload.  Status messages are plain       *)
(* strings, "" standing for undefined/empty (both falsy); status codes are *)
(* integers, 0 standing for undefined (falsy).                             *)
(***************************************************************************)
EXTENDS Integers, Sequences, FiniteSets

\* ------------------------------------------------------------------ bounds
MaxHeaders == 2      \* caller-supplied headers per options.headers
MaxCalls   == 2      \* end()/send() calls per builder

\* ------------------------------------------------------- JavaScript values
Undefined == [t |-> "undefined", s |-> "", n |-> 0]
Null      == [t |-> "null", s |-> "", n |-> 0]
False     == [t |-> "false", s |-> "", n |-> 0]
Str(x)    == [t |-> "string", s |-> x, n |-> 0]
Num(k)    == [t |-> "number", s |-> "", n |-> k]
PlainObj  == [t |-> "object", s |-> "", n |-> 0]        \* {"ok":true}
CodeMsg(c, m) == [t |-> "codemsg", s |-> m, n |-> c]    \* {code: c, message: m}
Wrapped(c, m) == [t |-> "wrapped", s |-> m, n |-> c]    \* {error: {code: c, message: m}}

\* XP.isDefined
IsDefined(v) == v.t # "undefined"
\* XP.isVoid
IsVoid(v) == v.t \in {"undefined", "null"}
\* XP.isFalse
IsFalse(v) == v.t = "false"
\* XP.isInput(value, notEmpty): a string (non-empty when notEmpty) or a number
IsInput(v, notEmpty) ==
    \/ v.t = "string" /\ (notEmpty => v.s # "")
    \/ v.t = "number"
\* JavaScript truthiness, as used by `x || y` and `!x`
Truthy(v) ==
    CASE v.t \in {"undefined", "null", "false"} -> FALSE
      [] v.t = "string" -> v.s # ""
      [] v.t = "number" -> v.n # 0
      [] OTHER -> TRUE

\* Number.prototype.toString for the non-negative integers that occur
Digit(d) == <<"0", "1", "2", "3", "4", "5", "6", "7", "8", "9">>[d + 1]
RECURSIVE IntToStr(_)
IntToStr(k) == IF k < 10 THEN Digit(k) ELSE IntToStr(k \div 10) \o Digit(k % 10)

\* XP.toJSON: the JSON text of the value; a void value gives the empty string
CodeMsgJSON(c, m) == "{\"code\":" \o IntToStr(c) \o ",\"message\":\"" \o m \o "\"}"
ToJSON(v) ==
    CASE IsVoid(v) -> ""
      [] v.t = "false" -> "false"
      [] v.t = "string" -> "\"" \o v.s \o "\""
      [] v.t = "number" -> IntToStr(v.n)
      [] v.t = "object" -> "{\"ok\":true}"
      [] v.t = "codemsg" -> CodeMsgJSON(v.n, v.s)
      [] v.t = "wrapped" -> "{\"error\":" \o CodeMsgJSON(v.n, v.s) \o "}"

\* XP.toString / value.toString(): string coercion; a void value gives ""
XPtoString(v) ==
    CASE IsVoid(v) -> ""
      [] v.t = "false" -> "false"
      [] v.t = "string" -> v.s
      [] v.t = "number" -> IntToStr(v.n)
      [] OTHER -> "[object Object]"

\* XP.byteLength / Buffer.byteLength of a body; the bodies here are ASCII
ByteLength(s) == Len(s)

\* ------------------------------------------------------ http.STATUS_CODES
KnownCodes == {200, 204, 302, 404, 500}
STATUS_CODES(c) ==
    CASE c = 200 -> "OK"
      [] c = 204 -> "No Content"
      [] c = 302 -> "Found"
      [] c = 404 -> "Not Found"
      [] c = 500 -> "Internal Server Error"
      [] OTHER -> ""

\* ------------------------------------------------------------------- modes
ModeNames == {"html", "js", "json", "text"}
modes(m) ==
    CASE m = "html" -> <<"Content-Type", Str("text/html; charset=utf-8")>>
      [] m = "js"   -> <<"Content-Type", Str("application/javascript; charset=utf-8")>>
      [] m = "json" -> <<"Content-Type", Str("application/json; charset=utf-8")>>
      [] m = "text" -> <<"Content-Type", Str("text/plain; charset=utf-8")>>

HeaderNames == {"Content-Type", "Content-Length", "X-Trace"}

VARIABLES
    variant,     \* which iteration of the class is running: "lib" or "part"
    options,     \* the options object passed to the constructor
    sink,        \* options.response, the response sink (its state even when not attached)
    sink0,       \* the sink as it was when the constructor was called
    self,        \* the instance's fields
    pc,          \* "new", "constructed" or "threw" (the constructor threw)
    calls,       \* end()/send() calls made so far
    callbacks,   \* completion callbacks invoked so far
    outcome,     \* how the last end()/send() call ended: "none", "returned", "fault"
    lastSet      \* the last assignment made after construction: <<field, value>>, or <<>>

vars == <<variant, options, sink, sink0, self, pc, calls, callbacks, outcome, lastSet>>

\* The instance before the constructor body runs: no field holds a value.
Blank ==
    [error |-> Undefined, mode |-> Undefined, response |-> Undefined,
     statusCode_ |-> 0, statusMessage_ |-> "",
     data |-> Undefined, body |-> Undefined, bytes |-> Undefined]

\* `this.response` is truthy: a sink is attached
Attached(b) == b.response.t = "object"

\* A header pass over the sink: the sink's headers so far, and whether a call threw.
\* A throw ends the constructor, so the calls after it do not run.

\* lib: setHeader(name, value)
setHeader(h, name, value) ==
    IF h.threw THEN h
    ELSE IF ~(IsVoid(value) \/ IsFalse(value) \/ IsInput(value, FALSE))
         THEN [h EXCEPT !.threw = TRUE]
    ELSE IF ~IsInput(value, TRUE)
         THEN [h EXCEPT !.headers[name] = Undefined]
    ELSE [h EXCEPT !.headers[name] = Str(XPtoString(value))]

\* part: header(name, value), the setting half
header(h, name, value) ==
    IF ~IsDefined(value) THEN h
    ELSE IF IsInput(value, TRUE)
         THEN [h EXCEPT !.headers[name] = value]
    ELSE [h EXCEPT !.headers[name] = Undefined]

\* forEach of setHeader / header over the caller's headers, in key order
RECURSIVE setHeaders(_, _)
setHeaders(h, hs) ==
    IF hs = <<>> THEN h
    ELSE setHeaders(setHeader(h, hs[1][1], hs[1][2]), Tail(hs))

RECURSIVE headers(_, _)
headers(h, hs) ==
    IF hs = <<>> THEN h
    ELSE headers(header(h, hs[1][1], hs[1][2]), Tail(hs))

\* ErrorCode without the lookup in http.STATUS_CODES
ErrorCodeUnchecked(error) == error.n

\* The status code of an error: its own code when http.STATUS_CODES knows it, else 500
ErrorCode(error) == IF error.n \in KnownCodes THEN error.n ELSE 500

\* lib: the status message of an error
\*   this.statusCode < 500 && this.error.message || http.STATUS_CODES[this.statusCode]
LibErrorMessage(statusCode, error) ==
    IF statusCode < 500 /\ error.s # "" THEN error.s ELSE STATUS_CODES(statusCode)

\* part: the status message of an error
\*   XP.isBetween(code, 400, 499) ? error.message : http.STATUS_CODES[code]
PartErrorMessage(code, error) ==
    IF code >= 400 /\ code <= 499 THEN error.s ELSE STATUS_CODES(code)

\* lib: the `then` hook of body, run after body is assigned; gives the status code
bodyThen(statusCode, val) ==
    IF statusCode = 200 /\ val = "" THEN 204 ELSE statusCode

\* lib: the status accessors read and write the sink when one is attached,
\* the instance's own statusCode_ / statusMessage_ otherwise
LibGetStatusCode(b, r) == IF Attached(b) THEN r.statusCode ELSE b.statusCode_
LibGetStatusMessage(b, r) == IF Attached(b) THEN r.statusMessage ELSE b.statusMessage_
LibSetStatusCode(st, val) ==
    IF Attached(st.self) THEN [st EXCEPT !.sink.statusCode = val]
    ELSE [st EXCEPT !.self.statusCode_ = val]
LibSetStatusMessage(st, val) ==
    IF Attached(st.self) THEN [st EXCEPT !.sink.statusMessage = val]
    ELSE [st EXCEPT !.self.statusMessage_ = val]

\* part: the status getters; without a sink they are the constants 200 and "OK"
PartGetStatusCode(b, r) == IF Attached(b) THEN r.statusCode ELSE 200
PartGetStatusMessage(b, r) == IF Attached(b) THEN r.statusMessage ELSE STATUS_CODES(200)

\* response.end = response.end.bind(response, body, 'utf-8')
BindEnd(r, body) == [r EXCEPT !.bound = <<body, "utf-8">>]

\* `options.error || null`
OptError(o) == IF Truthy(o.error) THEN o.error ELSE Null
\* `options.mode || 'json'`
OptMode(o) == IF o.mode # "" THEN o.mode ELSE "json"
\* `options.response || null`
OptResponse(o) == IF o.response THEN PlainObj ELSE Null

\* lib, initialize: the statements of the constructor body, each taking the state
\* st = [self, sink] the statements before it left.

\* this.statusCode = this.error ? (...) : (this.response && this.response.statusCode || 200)
LibStatusCode(st) ==
    LibSetStatusCode(st,
        IF Truthy(st.self.error) THEN ErrorCode(st.self.error)
        ELSE IF Attached(st.self) /\ st.sink.statusCode # 0 THEN st.sink.statusCode
        ELSE 200)

\* this.statusMessage = this.error ? (...) : (this.response && this.response.statusMessage || ...)
LibStatusMessage(st) ==
    LibSetStatusMessage(st,
        IF Truthy(st.self.error)
        THEN LibErrorMessage(LibGetStatusCode(st.self, st.sink), st.self.error)
        ELSE IF Attached(st.self) /\ st.sink.statusMessage # "" THEN st.sink.statusMessage
        ELSE STATUS_CODES(LibGetStatusCode(st.self, st.sink)))

\* this.data = this.error ? {code: this.statusCode, message: this.statusMessage} : this.options.data
LibData(o, st) ==
    [st EXCEPT !.self.data =
        IF Truthy(st.self.error)
        THEN CodeMsg(LibGetStatusCode(st.self, st.sink), LibGetStatusMessage(st.self, st.sink))
        ELSE o.data]

\* XP[this.mode === 'json' ? 'toJSON' : 'toString'](this.data)
LibSerialize(b) == IF b.mode = Str("json") THEN ToJSON(b.data) ELSE XPtoString(b.data)

\* this.body = ...; then the `then` hook of body
LibBody(st) ==
    LibSetStatusCode([st EXCEPT !.self.body = Str(LibSerialize(st.self))],
                     bodyThen(LibGetStatusCode(st.self, st.sink), LibSerialize(st.self)))

\* this.bytes = XP.byteLength(this.body)
LibBytes(st) == [st EXCEPT !.self.bytes = Num(ByteLength(st.self.body.s))]

\* LibHeaders with Content-Length set before the caller's headers
LibHeadersLengthFirst(o, st) ==
    setHeaders(
        setHeader(
            setHeader([headers |-> st.sink.headers, threw |-> FALSE],
                      modes(st.self.mode.s)[1], modes(st.self.mode.s)[2]),
            "Content-Length", Str(IntToStr(st.self.bytes.n))),
        o.headers)

\* The three header passes, in order: the mode's template, the caller's headers,
\* Content-Length
LibHeaders(o, st) ==
    setHeader(
        setHeaders(
            setHeader([headers |-> st.sink.headers, threw |-> FALSE],
                      modes(st.self.mode.s)[1], modes(st.self.mode.s)[2]),
            o.headers),
        "Content-Length", Str(IntToStr(st.self.bytes.n)))

\* The end of the constructor body: return without a sink; else the headers, and
\* the binding of end unless a header call threw
LibFinish(o, st) ==
    IF ~Attached(st.self)
    THEN [self |-> st.self, sink |-> st.sink, pc |-> "constructed"]
    ELSE LET h == LibHeaders(o, st)
         IN  IF h.threw
             THEN [self |-> st.self, sink |-> [st.sink EXCEPT !.headers = h.headers],
                   pc |-> "threw"]
             ELSE [self |-> st.self,
                   sink |-> BindEnd([st.sink EXCEPT !.headers = h.headers], st.self.body.s),
                   pc |-> "constructed"]

\* this.error, this.mode and this.response, from the options
LibSetting(o) ==
    [Blank EXCEPT !.error = OptError(o), !.mode = Str(OptMode(o)),
                  !.response = OptResponse(o)]

\* lib: initialize(options).  The result is the instance, the sink and pc:
\* "constructed", or "threw" with the state the throw left behind.  The validator
\* of mode throws before response is assigned.
LibInitialize(o, r) ==
    IF OptMode(o) \notin ModeNames
    THEN [self |-> [Blank EXCEPT !.error = OptError(o)], sink |-> r, pc |-> "threw"]
    ELSE LibFinish(o,
             LibBytes(LibBody(LibData(o, LibStatusMessage(LibStatusCode(
                 [self |-> LibSetting(o), sink |-> r]))))))

\* part, initialize: the locals code, message and data
PartCode(o) == IF Truthy(OptError(o)) THEN ErrorCode(OptError(o)) ELSE 0
PartMessage(o) ==
    IF Truthy(OptError(o)) THEN PartErrorMessage(PartCode(o), OptError(o)) ELSE ""
PartLocalData(o) ==
    IF Truthy(OptError(o)) THEN Wrapped(PartCode(o), PartMessage(o)) ELSE o.data

\* this.data = error ? null : data;  this.error = error ? data : null
PartSetting(o) ==
    [Blank EXCEPT !.data = IF Truthy(OptError(o)) THEN Null ELSE PartLocalData(o),
                  !.error = IF Truthy(OptError(o)) THEN PartLocalData(o) ELSE Null]

\* this.body = this.mode === 'json' ? XP.toJSON(data) : XP.toString(this.data || '')
PartSerialize(o, b) ==
    IF OptMode(o) = "json" THEN ToJSON(PartLocalData(o))
    ELSE XPtoString(IF Truthy(b.data) THEN b.data ELSE Str(""))

\* The three header passes, in order
PartHeaders(o, b, r) ==
    header(
        headers(
            header([headers |-> r.headers, threw |-> FALSE],
                   modes(b.mode.s)[1], modes(b.mode.s)[2]),
            o.headers),
        "Content-Length", Num(ByteLength(b.body.s)))

\* this.response.statusCode = this.error ? code : this.options.code || (...)
PartStatusCode(o, b, r) ==
    [r EXCEPT !.statusCode =
        IF Truthy(b.error) THEN PartCode(o)
        ELSE IF o.code # 0 THEN o.code
        ELSE IF PartGetStatusCode(b, r) = 200 /\ b.body.s = "" THEN 204
        ELSE PartGetStatusCode(b, r)]

\* this.response.statusMessage = this.error ? message : http.STATUS_CODES[this.statusCode]
PartStatusMessage(o, b, r) ==
    [r EXCEPT !.statusMessage =
        IF Truthy(b.error) THEN PartMessage(o)
        ELSE STATUS_CODES(PartGetStatusCode(b, r))]

\* The constructor body from the assignment of body on
PartFinish(o, b, r) ==
    IF ~Attached(b)
    THEN [self |-> b, sink |-> r, pc |-> "constructed"]
    ELSE [self |-> b,
          sink |-> BindEnd(
                      PartStatusMessage(o, b,
                          PartStatusCode(o, b,
                              [r EXCEPT !.headers = PartHeaders(o, b, r).headers])),
                      b.body.s),
          pc |-> "constructed"]

\* part: initialize(options)
PartInitialize(o, r) ==
    IF OptMode(o) \notin ModeNames
    THEN [self |-> PartSetting(o), sink |-> r, pc |-> "threw"]
    ELSE PartFinish(o,
             [PartSetting(o) EXCEPT !.mode = Str(OptMode(o)),
                                    !.response = OptResponse(o),
                                    !.body = Str(PartSerialize(o, PartSetting(o)))],
             r)

\* The sink's own end(chunk, encoding, callback), reached through the bound end:
\* the first call writes the bound body and completes (invoking the callback when
\* one is passed); the sink may be ended once, so a later call is a fault it signals.
SinkEnd(r, hasCallback) ==
    IF r.endCalls = 0
    THEN [sink |-> [r EXCEPT !.writes = Append(@, r.bound), !.endCalls = 1],
          called |-> IF hasCallback THEN 1 ELSE 0, outcome |-> "returned"]
    ELSE [sink |-> [r EXCEPT !.endCalls = @ + 1, !.faults = @ + 1],
          called |-> 0, outcome |-> "fault"]

\* ------------------------------------------------------------------ inputs
ErrorCodes    == {302, 404, 999}
ErrorMessages == {"", "Not Found", "boom"}
Errors        == {CodeMsg(c, m) : c \in ErrorCodes, m \in ErrorMessages}
HeaderValues  == {Undefined, False, Str(""), Str("custom"), PlainObj}
HeaderPairs   == HeaderNames \X HeaderValues
\* options.headers as its key/value pairs in key order: distinct names
HeaderSeqs ==
    {hs \in UNION {[1..k -> HeaderPairs] : k \in 0..MaxHeaders} :
        \A i, j \in DOMAIN hs : i # j => hs[i][1] # hs[j][1]}

NoHeaders == [n \in HeaderNames |-> Undefined]
NewSink(code, message, hdrs) ==
    [statusCode |-> code, statusMessage |-> message, headers |-> hdrs,
     bound |-> <<>>, writes |-> <<>>, endCalls |-> 0, faults |-> 0]

\* Constructions that vary the status inputs, with no caller headers.  Without
\* a sink the constructor never reads one, so one sink state stands for all.
SinkStatuses == {<<200, "">>, <<404, "Custom">>, <<999, "">>}
StatusInput(d, e, m, a, c, sc) ==
    [o |-> [data |-> d, error |-> e, headers |-> <<>>, mode |-> m,
            response |-> a, code |-> c],
     r |-> NewSink(sc[1], sc[2], NoHeaders)]
StatusInputs ==
    {StatusInput(d, e, m, a[1], c, a[2]) :
        d \in {Undefined, Str("hi"), PlainObj},
        e \in {Undefined} \cup Errors,
        m \in {"", "text", "xml"},
        c \in {0, 200, 999},
        a \in ({TRUE} \X SinkStatuses) \cup {<<FALSE, <<200, "">>>>}}

\* Constructions that vary the mode and the caller headers, on a fresh sink
\* or on one that already carries a header
HeaderInputs ==
    {[o |-> [data |-> d, error |-> Undefined, headers |-> hs, mode |-> m,
             response |-> TRUE, code |-> 0],
      r |-> NewSink(200, "", h0)] :
        d \in {Undefined, Str("hi")},
        hs \in HeaderSeqs,
        m \in ModeNames \cup {"", "xml"},
        h0 \in {NoHeaders, [NoHeaders EXCEPT !["X-Trace"] = Str("t0")]}}

\* Constructions whose instances are assigned to afterwards
SetInputs ==
    {[o |-> [data |-> d, error |-> e, headers |-> <<>>, mode |-> m,
             response |-> a, code |-> 0],
      r |-> NewSink(200, "", NoHeaders)] :
        d \in {Undefined, Str("hi")},
        e \in {Undefined, CodeMsg(404, "boom")},
        m \in {"", "text"},
        a \in BOOLEAN}

Inputs == StatusInputs \cup HeaderInputs

InitWith(inputs) ==
    /\ variant \in {"lib", "part"}
    /\ \E i \in inputs : options = i.o /\ sink = i.r /\ sink0 = i.r
    /\ self = Blank
    /\ pc = "new"
    /\ calls = 0
    /\ callbacks = 0
    /\ outcome = "none"
    /\ lastSet = <<>>

Init == InitWith(Inputs)
InitSet == InitWith(SetInputs)

\* ----------------------------------------------------------------- actions
\* new XPResponder(options), lib
LibNew ==
    /\ pc = "new" /\ variant = "lib"
    /\ LET res == LibInitialize(options, sink)
       IN  self' = res.self /\ sink' = res.sink /\ pc' = res.pc
    /\ UNCHANGED <<variant, options, sink0, calls, callbacks, outcome, lastSet>>

\* new XPResponder(options), part
PartNew ==
    /\ pc = "new" /\ variant = "part"
    /\ LET res == PartInitialize(options, sink)
       IN  self' = res.self /\ sink' = res.sink /\ pc' = res.pc
    /\ UNCHANGED <<variant, options, sink0, calls, callbacks, outcome, lastSet>>

\* end without the check for a sink
endUnguarded ==
    /\ pc = "constructed" /\ variant = "lib" /\ calls < MaxCalls
    /\ calls' = calls + 1
    /\ LET res == SinkEnd(sink, TRUE)
       IN  sink' = res.sink /\ callbacks' = callbacks + res.called
           /\ outcome' = res.outcome
    /\ UNCHANGED <<variant, options, sink0, self, pc, lastSet>>

\* lib: end(callback)
end ==
    /\ pc = "constructed" /\ variant = "lib" /\ calls < MaxCalls
    /\ calls' = calls + 1
    /\ IF ~Attached(self)
       THEN callbacks' = callbacks + 1 /\ outcome' = "returned" /\ sink' = sink
       ELSE LET res == SinkEnd(sink, TRUE)
            IN  sink' = res.sink /\ callbacks' = callbacks + res.called
                /\ outcome' = res.outcome
    /\ UNCHANGED <<variant, options, sink0, self, pc, lastSet>>

\* send behind a finalized guard: only the first call reaches the sink
sendOnce ==
    /\ pc = "constructed" /\ variant = "part" /\ calls < MaxCalls
    /\ calls' = calls + 1
    /\ IF ~Attached(self) \/ calls > 0
       THEN outcome' = "returned" /\ sink' = sink
       ELSE LET res == SinkEnd(sink, FALSE)
            IN  sink' = res.sink /\ outcome' = res.outcome
    /\ UNCHANGED <<variant, options, sink0, self, pc, callbacks, lastSet>>

\* part: send()
send ==
    /\ pc = "constructed" /\ variant = "part" /\ calls < MaxCalls
    /\ calls' = calls + 1
    /\ IF ~Attached(self)
       THEN outcome' = "returned" /\ sink' = sink
       ELSE LET res == SinkEnd(sink, FALSE)
            IN  sink' = res.sink /\ outcome' = res.outcome
    /\ UNCHANGED <<variant, options, sink0, self, pc, callbacks, lastSet>>

\* A setter that takes every assignment
setAlways(current, val) == val

\* The setter shared by body, bytes, data, error and response:
\*   set(val) { return XP.isDefined(this.f) ? this.f : val; }
setOnce(current, val) == IF IsDefined(current) THEN current ELSE val

\* The setter of mode:  set(val) { return this.mode || val; }
setMode(current, val) == IF Truthy(current) THEN current ELSE val

\* instance.f = v after construction, f one of body, bytes, data, error, response
\* (part declares no bytes).  In lib the `then` hook of body runs after the set.
SetValues == {Null, Str("second")}
SetField(f, v) ==
    /\ pc = "constructed"
    /\ variant = "part" => f # "bytes"
    /\ LET val == setOnce(self[f], v)
           st  == [self |-> [self EXCEPT ![f] = val], sink |-> sink]
           st2 == IF variant = "lib" /\ f = "body"
                  THEN LibSetStatusCode(st,
                           bodyThen(LibGetStatusCode(self, sink), XPtoString(val)))
                  ELSE st
       IN  self' = st2.self /\ sink' = st2.sink
    /\ lastSet' = <<f, v>>
    /\ UNCHANGED <<variant, options, sink0, pc, calls, callbacks, outcome>>

\* instance.mode = v after construction
SetMode(v) ==
    /\ pc = "constructed"
    /\ self' = [self EXCEPT !.mode = setMode(self.mode, v)]
    /\ lastSet' = <<"mode", v>>
    /\ UNCHANGED <<variant, options, sink, sink0, pc, calls, callbacks, outcome>>

\* lib: instance.statusCode = v after construction
SetStatusCode(v) ==
    /\ pc = "constructed" /\ variant = "lib"
    /\ LET st == LibSetStatusCode([self |-> self, sink |-> sink], v)
       IN  self' = st.self /\ sink' = st.sink
    /\ lastSet' = <<"statusCode", Num(v)>>
    /\ UNCHANGED <<variant, options, sink0, pc, calls, callbacks, outcome>>

\* lib: instance.statusMessage = v after construction
SetStatusMessage(v) ==
    /\ pc = "constructed" /\ variant = "lib"
    /\ LET st == LibSetStatusMessage([self |-> self, sink |-> sink], v)
       IN  self' = st.self /\ sink' = st.sink
    /\ lastSet' = <<"statusMessage", Str(v)>>
    /\ UNCHANGED <<variant, options, sink0, pc, calls, callbacks, outcome>>

\* Construction and finalization
Next ==
    \/ LibNew
    \/ PartNew
    \/ end
    \/ send

\* Construction, finalization and assignments to the instance's fields
NextSet ==
    \/ LibNew
    \/ PartNew
    \/ end
    \/ send
    \/ \E f \in {"body", "bytes", "data", "error", "response"}, v \in SetValues :
           SetField(f, v)
    \/ \E v \in {Str("text")} : SetMode(v)
    \/ \E v \in {200} : SetStatusCode(v)
    \/ \E v \in {"Custom"} : SetStatusMessage(v)

Spec == Init /\ [][Next]_vars
SpecSet == InitSet /\ [][NextSet]_vars

\* ------------------------------------------------------------- properties
\* What the claims read: the instance's statusCode / statusMessage through the
\* getters of the running iteration, and the inputs of the construction.
StatusCode ==
    IF variant = "lib" THEN LibGetStatusCode(self, sink) ELSE PartGetStatusCode(self, sink)
StatusMessage ==
    IF variant = "lib" THEN LibGetStatusMessage(self, sink)
    ELSE PartGetStatusMessage(self, sink)
HasError == Truthy(options.error)
Constructed == pc = "constructed"
InvalidHeader(v) == ~(IsVoid(v) \/ IsFalse(v) \/ IsInput(v, FALSE))
\* The status the construction resolves before the empty-body adjustment: the
\* error's code, else the override, else the sink's status, else 200
Resolved ==
    IF HasError THEN (IF options.error.n \in KnownCodes THEN options.error.n ELSE 500)
    ELSE IF options.code # 0 THEN options.code
    ELSE IF options.response /\ sink0.statusCode # 0 THEN sink0.statusCode
    ELSE 200
\* The value the caller's headers give for a name, if they name it
Supplied(name) == \E i \in DOMAIN options.headers : options.headers[i][1] = name
SuppliedValue(name) ==
    options.headers[CHOOSE i \in DOMAIN options.headers : options.headers[i][1] = name][2]

\* C1: with an error passed, the constructor never throws because of the error's
\* code, and afterwards the instance's statusCode is the error's code when
\* http.STATUS_CODES knows it and 500 otherwise, with or without a sink.
C1_StatusCodeFromError ==
    HasError =>
        /\ pc = "threw" =>
              \/ OptMode(options) \notin ModeNames
              \/ \E i \in DOMAIN options.headers : InvalidHeader(options.headers[i][2])
        /\ Constructed =>
              StatusCode = IF options.error.n \in KnownCodes THEN options.error.n ELSE 500

\* C2: with an error and a sink, statusMessage is the error's message exactly when
\* the resolved statusCode is within 400..499, and the standard reason phrase of
\* statusCode otherwise.
C2_MessageOnlyForClientErrors ==
    (Constructed /\ HasError /\ Attached(self)) =>
        StatusMessage = IF StatusCode >= 400 /\ StatusCode <= 499
                        THEN options.error.s
                        ELSE STATUS_CODES(StatusCode)

\* C3: with an error, data is the object {code: statusCode, message: statusMessage}
\* and in json mode body is the JSON text of exactly that object.
C3_ErrorDataAndBody ==
    (Constructed /\ HasError) =>
        /\ self.data = CodeMsg(StatusCode, StatusMessage)
        /\ self.mode = Str("json") =>
              self.body = Str(CodeMsgJSON(StatusCode, StatusMessage))

\* C4: with a sink, a resolved status of 200 and an empty body, the sink ends up
\* with status 204 and reason phrase "No Content", and finalizing writes no body
\* bytes.
C4_EmptyBodyIs204 ==
    (Constructed /\ Attached(self) /\ Resolved = 200 /\ self.body = Str("")) =>
        /\ sink.statusCode = 204
        /\ sink.statusMessage = "No Content"
        /\ \A i \in DOMAIN sink.writes : sink.writes[i][1] = ""

\* C5: with a sink, the headers are the template's, then the caller's, then
\* Content-Length: Content-Type is the table's value for the mode unless the caller
\* names Content-Type, whose value then wins (a value that is no header input
\* removes the header); Content-Length is the byte length of body whatever the
\* caller gave for it; a header nobody names is left as the sink had it.
C5_HeaderOrder ==
    (Constructed /\ Attached(self)) =>
        /\ XPtoString(sink.headers["Content-Length"]) = IntToStr(ByteLength(self.body.s))
        /\ IsDefined(sink.headers["Content-Length"])
        /\ ~Supplied("Content-Type") =>
              sink.headers["Content-Type"] = modes(self.mode.s)[2]
        /\ \A n \in {"Content-Type", "X-Trace"} :
              /\ (Supplied(n) /\ IsInput(SuppliedValue(n), TRUE)) =>
                    XPtoString(sink.headers[n]) = XPtoString(SuppliedValue(n))
              /\ (Supplied(n) /\ IsDefined(SuppliedValue(n))
                    /\ ~IsInput(SuppliedValue(n), TRUE)) =>
                    sink.headers[n] = Undefined
        /\ ~Supplied("X-Trace") => sink.headers["X-Trace"] = sink0.headers["X-Trace"]

C5_Witness ==
    /\ Constructed /\ Attached(self)
    /\ Supplied("Content-Length") /\ SuppliedValue("Content-Length") = Str("custom")
    /\ Supplied("Content-Type") /\ SuppliedValue("Content-Type") = Str("custom")
    /\ sink.headers["Content-Type"] = Str("custom")
    /\ XPtoString(sink.headers["Content-Length"]) = "4"

\* C6 (as stated): every derived field, statusCode and statusMessage included, keeps
\* its first defined value under every later assignment.
WriteOnceFields == {"data", "error", "body", "bytes", "mode", "response"}
C7_NoPartialHeaders ==
    pc = "threw" => sink.headers = sink0.headers

\* C8: without a sink, every end()/send() call returns without throwing, leaves
\* the sink and every derived field as they were, and signals completion (lib:
\* the callback is invoked).
C8_FinalizeWithoutSink ==
    [][(Constructed /\ ~Attached(self) /\ calls' = calls + 1) =>
          /\ sink' = sink
          /\ self' = self
          /\ StatusCode' = StatusCode /\ StatusMessage' = StatusMessage
          /\ outcome' = "returned"
          /\ variant = "lib" => callbacks' = callbacks + 1]_vars

C8_Witness ==
    /\ Constructed /\ ~Attached(self)
    /\ calls = 2 /\ outcome = "returned"
    /\ sink = sink0
    /\ variant = "lib" => callbacks = 2

\* C9 (as stated): after every successful construction the instance's statusCode,
\* and the sink's when one is attached, has a standard reason phrase.
C9_StatusCodeAlwaysKnown ==
    Constructed =>
        /\ StatusCode \in KnownCodes
        /\ Attached(self) => sink.statusCode \in KnownCodes

\* C9 (amended): that holds when an error is passed, and otherwise when the status
\* the construction passes through (the override, else the sink's own, else 200)
\* has a standard reason phrase itself.
PassedThrough ==
    IF variant = "part" /\ options.code # 0 THEN options.code
    ELSE IF options.response /\ sink0.statusCode # 0 THEN sink0.statusCode
    ELSE 200
C9_StatusCodeKnownFromKnownInputs ==
    (Constructed /\ (HasError \/ PassedThrough \in KnownCodes)) =>
        /\ StatusCode \in KnownCodes
        /\ Attached(self) => sink.statusCode \in KnownCodes

C9_Witness ==
    /\ Constructed /\ Attached(self)
    /\ HasError /\ options.error.n = 999
    /\ sink.statusCode = 500 /\ StatusCode = 500

\* C10: with a sink, every end()/send() call reaches the sink's end: the first
\* writes the body once with encoding utf-8, and each later one is the sink's
\* fault, never swallowed and never a second write.
C10_FinalizeForwarded ==
    (Constructed /\ Attached(self)) =>
        /\ sink.endCalls = calls
        /\ sink.writes = IF calls = 0 THEN <<>> ELSE <<<<self.body.s, "utf-8">>>>
        /\ sink.faults = IF calls = 0 THEN 0 ELSE calls - 1
        /\ calls >= 2 => outcome = "fault"
        /\ calls = 1 => outcome = "returned"

C10_Witness ==
    /\ Constructed /\ Attached(self)
    /\ calls = 2 /\ outcome = "fault"
    /\ sink.faults = 1 /\ Len(sink.writes) = 1
====
